---- MODULE Spec2Model ----
(***************************************************************************)
(* Subtitle translation pipelines of video-subtitle-generator/api:         *)
(*   - web_translate_srt.py  DeepLWebTranslator (one shared browser page,  *)
(*     anchored batch payloads, missing-anchor resubmission);              *)
(*   - translate_srt.py      DeepLTranslator (request-style channel,       *)
(*     fixed-size batches translated by a thread pool).                    *)
(* Texts are sequences of one-character strings, so that strip, replace,   *)
(* the anchor encoding and the decoding regular expression are computed    *)
(* character by character as the Python code computes them.                *)
(***************************************************************************)
EXTENDS Integers, Sequences, FiniteSets, TLC

(***************************************************************************)
(* Bounds of the model.                                                    *)
(***************************************************************************)
\* Longest subtitle list loaded from an input file.
MaxSubs == 3
\* Character budget of one batch (self.max_chars), scaled to the short texts
\* of SegPool: three one-character segments fit, a fourth does not.
max_chars == 12
\* Samples one translate_text call takes at most (range(60)), scaled to the
\* stability threshold: a text seen from the first sample on is returned as
\* stable before the limit, a text first seen at the last sample is not.
sample_limit == 5

\* app.py: the most tasks the table holds, and the most requests that wait
\* for a service at the same time.
MaxTasks == 1
MaxInFlight == 2

(***************************************************************************)
(* Text primitives (Python str methods used by the scripts).               *)
(***************************************************************************)
NL == "\n"
SP == " "
Whitespace == {SP, NL}
Digits == {"0", "1", "2", "3", "4", "5", "6", "7", "8", "9"}

RECURSIVE LStrip(_)
LStrip(s) == IF s # <<>> /\ Head(s) \in Whitespace THEN LStrip(Tail(s)) ELSE s

RECURSIVE RStrip(_)
RStrip(s) ==
    IF s # <<>> /\ s[Len(s)] \in Whitespace
    THEN RStrip(SubSeq(s, 1, Len(s) - 1))
    ELSE s

\* str.strip()
Strip(s) == RStrip(LStrip(s))

IsPrefix(p, s) == Len(p) <= Len(s) /\ SubSeq(s, 1, Len(p)) = p

\* str.replace(old, new): leftmost, non-overlapping occurrences.
RECURSIVE Replace(_, _, _)
Replace(s, old, new) ==
    IF s = <<>> THEN <<>>
    ELSE IF IsPrefix(old, s)
         THEN new \o Replace(SubSeq(s, Len(old) + 1, Len(s)), old, new)
         ELSE <<Head(s)>> \o Replace(Tail(s), old, new)

RECURSIVE Join(_, _)
\* sep.join(lines)
Join(lines, sep) ==
    IF lines = <<>> THEN <<>>
    ELSE IF Len(lines) = 1 THEN lines[1]
    ELSE lines[1] \o sep \o Join(Tail(lines), sep)

RECURSIVE SplitLines(_)
\* str.split(NL)
SplitLines(s) ==
    IF \A k \in 1..Len(s) : s[k] # NL THEN <<s>>
    ELSE LET k == CHOOSE k \in 1..Len(s) :
                      s[k] = NL /\ \A m \in 1..(k - 1) : s[m] # NL
         IN  <<SubSeq(s, 1, k - 1)>> \o SplitLines(SubSeq(s, k + 1, Len(s)))

DigitChar(d) ==
    CASE d = 0 -> "0" [] d = 1 -> "1" [] d = 2 -> "2" [] d = 3 -> "3"
      [] d = 4 -> "4" [] d = 5 -> "5" [] d = 6 -> "6" [] d = 7 -> "7"
      [] d = 8 -> "8" [] d = 9 -> "9"

DigitVal(c) ==
    CASE c = "0" -> 0 [] c = "1" -> 1 [] c = "2" -> 2 [] c = "3" -> 3
      [] c = "4" -> 4 [] c = "5" -> 5 [] c = "6" -> 6 [] c = "7" -> 7
      [] c = "8" -> 8 [] c = "9" -> 9

RECURSIVE IntToStr(_)
\* str(n) for n >= 0, as used by the f-string f"<{seq_num}>"
IntToStr(n) ==
    IF n < 10 THEN <<DigitChar(n)>>
    ELSE IntToStr(n \div 10) \o <<DigitChar(n % 10)>>

RECURSIVE StrToInt(_)
\* int(seq_str) for a non-empty string of digits
StrToInt(s) ==
    IF Len(s) = 1 THEN DigitVal(s[1])
    ELSE 10 * StrToInt(SubSeq(s, 1, Len(s) - 1)) + DigitVal(s[Len(s)])

(***************************************************************************)
(* Sentence ends and the planner's length measure.                         *)
(***************************************************************************)
\* endings of is_sentence_end.  A character outside ASCII is written as its
\* code point: "U+3002" is the ideographic full stop, one character of a text.
endings ==
    {".", "?", "!", ";", "U+3002", "U+FF1F", "U+FF01", "U+FF1B", "U+2026",
     "\"", "U+201D"}

\* text.strip().endswith(endings)
is_sentence_end(text) ==
    LET t == Strip(text) IN t # <<>> /\ t[Len(t)] \in endings

\* sub.content.strip().replace('\n', ' ')
Collapsed(content) == Replace(Strip(content), <<NL>>, <<SP>>)

\* len(content) + 3 of the planner's main loop
content_len(content) == Len(Collapsed(content)) + 3

(***************************************************************************)
(* Anchor codec of process_buffer.                                         *)
(***************************************************************************)
LT == <<"&", "l", "t", ";">>
GT == <<"&", "g", "t", ";">>

\* s.content.strip().replace(chr(10), ' ').replace('<', '&lt;').replace('>', '&gt;')
Sanitized(content) ==
    Replace(Replace(Collapsed(content), <<"<">>, LT), <<">">>, GT)

\* f"<{seq_num}>{content}"
formatted_line(seq_num, content) ==
    <<"<">> \o IntToStr(seq_num) \o <<">">> \o Sanitized(content)

\* "\n".join(formatted_lines) for the contents of one batch
merged_text(contents) ==
    Join([k \in 1..Len(contents) |-> formatted_line(k, contents[k])], <<NL>>)

\* Longest run of digits of s that starts at position p.
RECURSIVE DigitRun(_, _)
DigitRun(s, p) ==
    IF p <= Len(s) /\ s[p] \in Digits THEN <<s[p]>> \o DigitRun(s, p + 1) ELSE <<>>

\* Does '<(\d+)>' match at position p?
AnchorAt(s, p) ==
    /\ p <= Len(s)
    /\ s[p] = "<"
    /\ DigitRun(s, p + 1) # <<>>
    /\ p + 1 + Len(DigitRun(s, p + 1)) <= Len(s)
    /\ s[p + 1 + Len(DigitRun(s, p + 1))] = ">"

\* Lookahead (?=\n<|\Z) at position q.
FragmentStop(s, q) ==
    \/ q = Len(s) + 1
    \/ q + 1 <= Len(s) /\ s[q] = NL /\ s[q + 1] = "<"

\* End of the non-greedy (.*?) that starts at c: the first stop at or after c.
RECURSIVE FragmentEnd(_, _)
FragmentEnd(s, c) == IF FragmentStop(s, c) THEN c ELSE FragmentEnd(s, c + 1)

\* re.findall(r'<(\d+)>(.*?)(?=\n<|\Z)', s, re.DOTALL) scanning from p:
\* the sequence of <<seq_str, content>> pairs, leftmost and non-overlapping.
RECURSIVE FindAllFrom(_, _)
FindAllFrom(s, p) ==
    IF p > Len(s) THEN <<>>
    ELSE IF AnchorAt(s, p)
         THEN LET d == DigitRun(s, p + 1)
                  c == p + Len(d) + 2
                  q == FragmentEnd(s, c)
              IN  <<<<d, SubSeq(s, c, q - 1)>>>> \o FindAllFrom(s, q)
         ELSE FindAllFrom(s, p + 1)

matches(trans_text) == FindAllFrom(trans_text, 1)

\* content.strip().replace('&lt;', '<').replace('&gt;', '>')
clean_content(content) ==
    Replace(Replace(Strip(content), LT, <<"<">>), GT, <<">">>)

\* batch_trans_map built from the matches; a later match of a sequence number
\* overwrites an earlier one.
RECURSIVE TransMapOf(_)
TransMapOf(ms) ==
    IF ms = <<>> THEN <<>>
    ELSE LET prev == TransMapOf(SubSeq(ms, 1, Len(ms) - 1))
             last == ms[Len(ms)]
             seq  == StrToInt(last[1])
         IN  [k \in (DOMAIN prev) \cup {seq} |->
                 IF k = seq THEN clean_content(last[2]) ELSE prev[k]]

batch_trans_map(trans_text) == TransMapOf(matches(trans_text))

\* Variant of missing_indices that reports every member missing.
all_missing(btm, n) == [k \in 1..n |-> k - 1]

\* Variant of missing_indices that reports nothing missing.
no_missing(btm, n) == <<>>

\* missing_indices: the relative indices (0-based, increasing) of the batch
\* members whose sequence number is not a key of the decoded map.
RECURSIVE MissingFrom(_, _, _)
MissingFrom(btm, n, k) ==
    IF k >= n THEN <<>>
    ELSE (IF (k + 1) \in DOMAIN btm THEN <<>> ELSE <<k>>) \o MissingFrom(btm, n, k + 1)

missing_indices(btm, n) == MissingFrom(btm, n, 0)

(***************************************************************************)
(* Input: the subtitles returned by load_subtitles (srt.Subtitle objects). *)
(***************************************************************************)
\* Subtitles a file may hold: a plain line; a two-line block that ends a
\* sentence and has trailing blank space; a line with angle brackets and
\* the character sequence "&lt;" that fits the budget alone but not together
\* with another subtitle; a line longer than the budget.
SegPlain ==
    [index |-> 1, start |-> 0, end |-> 2, content |-> <<"a">>]
SegSentence ==
    [index |-> 2, start |-> 2, end |-> 4, content |-> <<"d", NL, "e", "U+3002", SP>>]
SegLong ==
    [index |-> 3, start |-> 4, end |-> 6,
     content |-> <<"<", "&", "l", "t", ";", ">", "c">>]
SegOversized ==
    [index |-> 4, start |-> 6, end |-> 9,
     content |-> <<"e", "e", "e", "e", "e", "e", "e", "e", "e", "e", "e">>]

SegPool == {SegPlain, SegSentence, SegLong, SegOversized}

\* Files of the web script: every list of at most MaxSubs subtitles.
SubLists == UNION {[1..n -> SegPool] : n \in 0..MaxSubs}

\* Files of the request-style script, which treats every text alike: one
\* list of each length, neighbours differing.
ApiOrder == <<SegSentence, SegPlain, SegOversized, SegLong>>
ApiLists ==
    {[k \in 1..n |-> ApiOrder[((k - 1) % Len(ApiOrder)) + 1]] : n \in 0..MaxSubs}

\* --batch_size and --workers of translate_srt.py (positive counts)
BatchSizes == {1, 2}
WorkerCounts == {1, 2}
\* --max_delay: none, or some
MaxDelays == {0, 1}

(***************************************************************************)
(* The translation channel: the DeepL page (web) and the DeepL API.        *)
(***************************************************************************)
\* "if stable_count >= 3"
stable_needed == 3

\* What the service makes of one character.
TrChar(c) ==
    CASE c = "a" -> "A" [] c = "b" -> "B" [] c = "c" -> "C"
      [] c = "d" -> "D" [] c = "e" -> "E" [] OTHER -> c

Translated(s) == [k \in 1..Len(s) |-> TrChar(s[k])]

\* Text of the target box once the page has settled on the submitted text:
\* every line is translated; of the lines that start with an anchor, those
\* outside keep lose it, either with their text (style "drop") or keeping
\* the text, which then runs on from the line before (style "merge"; the
\* first line has no line before it and is lost with its text).  The page
\* may also keep every anchor and turn the line breaks into spaces.
RECURSIVE OutputLines(_, _, _, _)
OutputLines(lines, k, keep, style) ==
    IF k > Len(lines) THEN <<>>
    ELSE LET l == lines[k]
             body == SubSeq(l, Len(DigitRun(l, 2)) + 3, Len(l))
             this == IF AnchorAt(l, 1) /\ k \notin keep
                     THEN (IF style = "merge" /\ k > 1 THEN <<Translated(body)>> ELSE <<>>)
                     ELSE <<Translated(l)>>
         IN  this \o OutputLines(lines, k + 1, keep, style)

ChannelOutputs(text) ==
    LET lines == SplitLines(text)
        anchored == {k \in 1..Len(lines) : AnchorAt(lines[k], 1)}
    IN  {Join(OutputLines(lines, 1, keep, style), <<NL>>) :
            keep \in SUBSET anchored, style \in {"drop", "merge"}}
        \cup {Join(OutputLines(lines, 1, anchored, "drop"), <<SP>>)}

\* Text of the target box while the page is still typing: the first lines
\* of the translation, the last line not yet among them.
PartialOutputs(text) ==
    LET lines == SplitLines(text)
    IN  {Join([j \in 1..k |-> Translated(lines[j])], <<NL>>) : k \in 1..(Len(lines) - 1)}

\* What the target box shows over time: nothing usable for the first delay
\* samples (inner_text fails or the box is empty, or it shows the
\* placeholder "[...]"), and the text out from then on.
Streams(text) ==
    {[delay |-> 0, out |-> o] : o \in ChannelOutputs(text)}
    \cup {[delay |-> sample_limit - 1, out |-> o] : o \in PartialOutputs(text)}
    \cup {[delay |-> sample_limit, out |-> <<>>]}

Placeholder == <<"[", ".", ".", ".", "]">>

\* "[...]" in current_text
Contains(s, sub) ==
    \E q \in 1..Len(s) : q + Len(sub) - 1 <= Len(s) /\ SubSeq(s, q, q + Len(sub) - 1) = sub

\* current_text of the k-th sample (1-based)
SampleAt(st, k) ==
    IF k > st.delay THEN st.out
    ELSE IF k % 2 = 1 THEN <<>> ELSE Translated(<<"a">>) \o Placeholder

\* Variant of AtLimit that discards what was observed.
AtLimit_discard(prev_text, polls) ==
    [how |-> "timeout_empty", out |-> <<>>, polls |-> polls, last |-> prev_text]

\* "return prev_text" after the loop: the last accepted sample, "" when no
\* sample was ever accepted.
AtLimit(prev_text, polls) ==
    [how |-> IF prev_text = <<>> THEN "timeout_empty" ELSE "timeout",
     out |-> prev_text, polls |-> polls, last |-> prev_text]

RECURSIVE Poll_first(_, _, _, _)
\* Variant of Poll that returns the first accepted sample without waiting
\* for it to stay the same.
Poll_first(st, k, prev_text, stable_count) ==
    IF k > sample_limit THEN AtLimit(prev_text, k - 1)
    ELSE LET current_text == SampleAt(st, k)
         IN  IF current_text = <<>> \/ Contains(current_text, Placeholder)
             THEN Poll_first(st, k + 1, prev_text, stable_count)
             ELSE [how |-> "observed", out |-> current_text, polls |-> k,
                   last |-> current_text]

RECURSIVE Poll(_, _, _, _)
\* The polling loop "for i in range(60)" from its k-th sample on, with the
\* loop's prev_text and stable_count.
Poll(st, k, prev_text, stable_count) ==
    IF k > sample_limit THEN AtLimit(prev_text, k - 1)
    ELSE LET current_text == SampleAt(st, k)
         IN  IF current_text = <<>> \/ Contains(current_text, Placeholder)
             THEN Poll(st, k + 1, prev_text, stable_count)
             ELSE IF current_text # prev_text
             THEN Poll(st, k + 1, current_text, 0)
             ELSE IF stable_count + 1 >= stable_needed /\ Strip(current_text) # <<>>
             THEN [how |-> "observed", out |-> current_text, polls |-> k,
                   last |-> current_text]
             ELSE Poll(st, k + 1, prev_text, stable_count + 1)

\* translate_text(text): the possible results with the way each comes about.
\*   blank          the text is empty after strip(): "" without a submission
\*   observed       the loop returned a sample that stayed the same
\*   timeout        the sample limit was reached: the last accepted sample
\*   timeout_empty  the sample limit was reached and no sample was ever
\*                  accepted: prev_text is still ""
\*   exception      the page raised: the submitted text itself is returned
\* polls is the number of samples taken, last the last accepted sample.
translate_text(text) ==
    IF Strip(text) = <<>>
    THEN {[how |-> "blank", out |-> <<>>, polls |-> 0, last |-> <<>>]}
    ELSE {Poll(st, 1, <<>>, 0) : st \in Streams(text)}
         \cup {[how |-> "exception", out |-> text, polls |-> 0, last |-> <<>>]}

\* s.content.replace('\n', ' ') of the request-style script
batch_text(content) == Replace(content, <<NL>>, <<SP>>)

\* translate_batch(texts): the list built from the response's "translations"
\* (the service decides how many items it holds), a list of "" when the
\* request failed or the response has no "translations", or an exception
\* raised before the request (time.sleep is outside the try block).
translate_batch(texts) ==
    LET full == [k \in 1..Len(texts) |-> Translated(texts[k])]
    IN  {[how |-> "returned", out |-> full],
         [how |-> "returned", out |-> SubSeq(full, 1, Len(full) - 1)],
         [how |-> "returned", out |-> Append(full, <<"X">>)],
         [how |-> "failed", out |-> [k \in 1..Len(texts) |-> <<>>]],
         [how |-> "raised", out |-> <<>>]}

(***************************************************************************)
(* Tables: the functions above, computed once for every text the scripts   *)
(* can build from the subtitles of SubLists; the actions look them up.     *)
(***************************************************************************)
\* The contents of the subtitles, and of the members of one batch in order.
Contents == {seg.content : seg \in SegPool}
BatchContents == {[k \in 1..Len(l) |-> l[k].content] : l \in SubLists \ {<<>>}}

content_len_of == [c \in Contents |-> content_len(c)]
merged_text_of == [cs \in BatchContents |-> merged_text(cs)]

\* The texts translate_text is called with: anchored payloads and contents.
SubmittedTexts == {merged_text_of[cs] : cs \in BatchContents} \cup Contents
translate_text_of == [t \in SubmittedTexts |-> translate_text(t)]

\* The texts translate_text returns, and what process_buffer decodes from each.
ReturnedTexts == UNION {{r.out : r \in translate_text_of[t]} : t \in SubmittedTexts}
batch_trans_map_of == [o \in ReturnedTexts |-> batch_trans_map(o)]

(***************************************************************************)
(* State.                                                                  *)
(***************************************************************************)
VARIABLES
    variant,        \* "web": web_translate_srt.py, "api": translate_srt.py
    single_mode,    \* args.single_mode (web)
    bilingual,      \* args.bilingual
    batch_size,     \* args.batch_size (api)
    workers,        \* args.workers (api)
    max_delay,      \* args.max_delay (api)
    subs,           \* the loaded subtitles, in file order
    pc,             \* position of process()
    i,              \* loop index of the planner's main loop (0-based)
    buffer_subs,    \* pending batch: list positions (the code pairs each
                    \* position with its subtitle, subs[position])
    buffer_len,     \* accumulated length of the pending batch
    cur,            \* subs_with_idx of the running process_buffer call
    todo,           \* relative indices still to translate one by one
    ret,            \* where process_buffer returns to: "append" | "final"
    translated_map, \* list position -> translated text
    sent,           \* history: the arguments of the process_buffer calls
    calls,          \* history: the translate_text calls of the latest
                    \* process_buffer call, with their results
    outcomes,       \* history: the kinds of answer the channel has given so
                    \* far (Answer)
    futures,        \* api: one record per submitted batch
    handled,        \* api: futures the as_completed loop has dealt with
    new_subs,       \* the reassembled subtitles
    written,        \* TRUE once the output file has been written
    in_flight,      \* web: submissions the shared page has been given and
                    \* that have not returned yet
    awaiting,       \* web: process_buffer is suspended in translate_text
    delay_due,      \* web: a submission to the page has returned and no
                    \* randomized delay (asyncio.sleep(random.uniform(..)))
                    \* has elapsed since
    tasks,          \* app.py: the process_records table, task id -> row
    reqs,           \* app.py: the requests whose handler is waiting for a
                    \* service (audio extraction, subtitle generation)
    threads,        \* app.py: the background threads of process_existing,
                    \* task id -> position of _process_task_background
    resp            \* app.py: the latest response sent

vars ==
    <<variant, single_mode, bilingual, batch_size, workers, subs, pc, i,
      buffer_subs, buffer_len, cur, todo, ret, translated_map, sent, calls,
      outcomes, futures, handled, new_subs, written, in_flight, awaiting,
      max_delay, delay_due, tasks, reqs, threads, resp>>

config == <<variant, single_mode, bilingual, batch_size, workers, max_delay, subs>>
planner == <<i, buffer_subs, buffer_len>>
output == <<new_subs, written>>
pool == <<futures, handled>>
page == <<in_flight, awaiting, delay_due>>
server == <<tasks, reqs, threads, resp>>

\* Number of loaded subtitles and their list positions (0-based, as in enumerate).
NumSubs == Len(subs)
Positions == 0..(NumSubs - 1)
Sub(p) == subs[p + 1]

\* app.py: the ids a request can name.  1 .. MaxTasks are the ids uuid4 gives
\* to the tasks; 0 is an id no task ever has ("nonexistent").
TaskIds == 1..MaxTasks
RequestIds == 0..MaxTasks

\* The slots of the requests that wait for a service at the same time.
Slots == 1..MaxInFlight

\* No request waits in the slot.
NoRequest == [op |-> "none", task |-> 0]

\* No response has been sent yet.
NoResponse ==
    [op |-> "none", named |-> FALSE, task |-> 0, code |-> "none",
     status |-> "none", progress |-> 0]

\* The server has started: the table is empty (db.create_all()).
ServerInit ==
    /\ tasks = <<>>
    /\ reqs = [s \in Slots |-> NoRequest]
    /\ threads = <<>>
    /\ resp = NoResponse

\* The translator has been constructed from the arguments; no file has been
\* read yet.
Init ==
    /\ variant \in {"web", "api"}
    /\ subs = <<>>
    /\ bilingual \in BOOLEAN
    /\ IF variant = "web"
       THEN single_mode \in BOOLEAN /\ batch_size = 1 /\ workers = 1
            /\ max_delay = 0
       ELSE single_mode = FALSE /\ batch_size \in BatchSizes
            /\ workers \in WorkerCounts /\ max_delay \in MaxDelays
    /\ pc = "idle"
    /\ i = 0
    /\ buffer_subs = <<>>
    /\ buffer_len = 0
    /\ cur = <<>>
    /\ todo = <<>>
    /\ ret = "append"
    /\ translated_map = <<>>
    /\ sent = <<>>
    /\ calls = <<>>
    /\ outcomes = {}
    /\ futures = <<>>
    /\ handled = {}
    /\ new_subs = <<>>
    /\ written = FALSE
    /\ in_flight = 0
    /\ awaiting = FALSE
    /\ delay_due = FALSE
    /\ ServerInit

(***************************************************************************)
(* DeepLWebTranslator.process: the planner's main loop.                    *)
(***************************************************************************)
Max(S) == CHOOSE m \in S : \A x \in S : x <= m

RECURSIVE SumLen(_)
\* sum(len(s[1].content.strip().replace('\n',' '))+3 for s in buffer_subs)
SumLen(buf) ==
    IF buf = <<>> THEN 0 ELSE content_len_of[Sub(Head(buf)).content] + SumLen(Tail(buf))

\* Variant of split_idx that never finds a sentence end.
split_idx_none(buf) == -1

\* The backward scan for a sentence end: the largest j (0-based) whose
\* subtitle ends a sentence, -1 when there is none.
split_idx(buf) ==
    LET ends == {j \in 0..(Len(buf) - 1) : is_sentence_end(Sub(buf[j + 1]).content)}
    IN  IF ends = {} THEN -1 ELSE Max(ends)

\* buffer_subs[:split_idx+1]
to_send(buf) == SubSeq(buf, 1, split_idx(buf) + 1)
\* Variant of remaining that starts one member too late.
remaining_short(buf) == SubSeq(buf, split_idx(buf) + 3, Len(buf))

\* buffer_subs[split_idx+1:]
remaining(buf) == SubSeq(buf, split_idx(buf) + 2, Len(buf))

\* One iteration of the loop whose subtitle fits: it is appended.
LoopAppend ==
    /\ variant = "web" /\ pc = "loop" /\ i < NumSubs
    /\ ~(buffer_len + content_len_of[Sub(i).content] > max_chars)
    /\ buffer_subs' = Append(buffer_subs, i)
    /\ buffer_len' = buffer_len + content_len_of[Sub(i).content]
    /\ i' = i + 1
    /\ UNCHANGED <<server, page, config, pc, cur, todo, ret, translated_map, sent, calls, outcomes,
                   pool, output>>

\* One iteration whose subtitle overflows the budget, up to the awaited
\* process_buffer call; the iteration's tail runs when the call returns.
LoopOverflow ==
    /\ variant = "web" /\ pc = "loop" /\ i < NumSubs
    /\ buffer_len + content_len_of[Sub(i).content] > max_chars
    /\ IF split_idx(buffer_subs) # -1 /\ split_idx(buffer_subs) < Len(buffer_subs) - 1
       THEN /\ cur' = to_send(buffer_subs)
            /\ buffer_subs' = remaining(buffer_subs)
            /\ buffer_len' = SumLen(remaining(buffer_subs))
       ELSE /\ cur' = buffer_subs
            /\ buffer_subs' = <<>>
            /\ buffer_len' = 0
    /\ sent' = Append(sent, cur')
    /\ calls' = <<>>
    /\ ret' = "append"
    /\ pc' = "buffer"
    /\ UNCHANGED <<server, page, config, i, todo, translated_map, outcomes, pool, output>>

\* After the loop: the rest of the buffer is processed.
LoopExit ==
    /\ variant = "web" /\ pc = "loop" /\ i = NumSubs
    /\ cur' = buffer_subs
    /\ sent' = Append(sent, buffer_subs)
    /\ calls' = <<>>
    /\ ret' = "final"
    /\ pc' = "buffer"
    /\ UNCHANGED <<server, page, config, planner, todo, translated_map, outcomes, pool, output>>

\* Return of process_buffer: the tail of the interrupted iteration appends
\* the overflowing subtitle; after the final call reassembly starts.
Return ==
    /\ cur' = <<>>
    /\ todo' = <<>>
    /\ IF ret = "append"
       THEN /\ buffer_subs' = Append(buffer_subs, i)
            /\ buffer_len' = buffer_len + content_len_of[Sub(i).content]
            /\ i' = i + 1
            /\ pc' = "loop"
       ELSE /\ pc' = "reassemble"
            /\ UNCHANGED planner
    /\ UNCHANGED <<server, config, ret, sent, pool, output>>

(***************************************************************************)
(* process_buffer (web): single mode, anchored batch, missing resubmission.*)
(***************************************************************************)
\* translated_map[k] = v
MapSet(m, k, v) == [x \in (DOMAIN m) \cup {k} |-> IF x = k THEN v ELSE m[x]]

\* The kind of answer of one translate_text call: a text read from the page
\* is "observed" whether it was returned as stable or at the sample limit.
Answer(how) == IF how = "timeout" THEN "observed" ELSE how

\* The record kept of one translate_text call.
Call(kind, idxs, text, r) ==
    [kind |-> kind, idxs |-> idxs, text |-> text, how |-> r.how, out |-> r.out,
     polls |-> r.polls, last |-> r.last]

\* The page's count of submissions when translate_text is entered with the
\* text: a blank text returns "" at once and never reaches the page.
Entered(n, text) == IF Strip(text) = <<>> THEN n ELSE n + 1

\* Variant of Left in which the page is still busy after the return.
Left_busy(n, text) == n

\* The page's count of submissions when translate_text returns.
Left(n, text) == IF Strip(text) = <<>> THEN n ELSE n - 1

\* Variant of global_idx_of that takes the index inside the batch for the
\* list position.
global_idx_relative(batch, rel) == rel

\* "global_idx, sub = subs_with_idx[i]": the list position of the member with
\* the relative index rel (0-based).
global_idx_of(batch, rel) == batch[rel + 1]

\* Variant of rest_todo that never moves past the member.
rest_todo_same(t) == t

\* "for idx, i in enumerate(missing_indices)" and the single-mode
\* "for idx, s in subs_with_idx": the loop moves on to the next member.
rest_todo(t) == Tail(t)

\* Text of a single-mode call: translate_text(s.content)
single_text(p) == Sub(p).content

\* Variant of resubmit_text that sends the member as a batch of one.
resubmit_text_anchored(p) == merged_text(<<Sub(p).content>>)

\* Text of the re-submission of a missing member: translate_text(sub.content)
resubmit_text(p) == Sub(p).content

\* The text of the translate_text call process_buffer is about to make or is
\* suspended in.
call_text ==
    CASE pc = "buffer" -> merged_text_of[[k \in 1..Len(cur) |-> Sub(cur[k]).content]]
      [] pc = "single" -> single_text(cur[Head(todo) + 1])
      [] pc = "missing" -> resubmit_text(global_idx_of(cur, Head(todo)))

\* "await self.translate_text(...)": the call is made and process_buffer is
\* suspended until it returns.
Submit ==
    /\ variant = "web" /\ ~awaiting
    /\ \/ pc = "buffer" /\ cur # <<>> /\ ~single_mode
       \/ pc \in {"single", "missing"} /\ todo # <<>>
    /\ awaiting' = TRUE
    /\ in_flight' = Entered(in_flight, call_text)
    /\ UNCHANGED <<server, delay_due, config, planner, pc, cur, todo, ret, translated_map, sent, calls,
                   outcomes, pool, output>>

\* "if not subs_with_idx: return"
BufferEmpty ==
    /\ variant = "web" /\ pc = "buffer" /\ cur = <<>>
    /\ Return
    /\ UNCHANGED <<page, translated_map, calls, outcomes>>

\* Single mode: the members are translated one by one, each followed by
\* "await asyncio.sleep(random.uniform(1, 2))"; the call returns after the
\* last of them.
SingleStart ==
    /\ variant = "web" /\ pc = "buffer" /\ cur # <<>> /\ single_mode
    /\ todo' = [k \in 1..Len(cur) |-> k - 1]
    /\ pc' = "single"
    /\ UNCHANGED <<server, page, config, planner, cur, ret, translated_map, sent, calls, outcomes,
                   pool, output>>

SingleStep ==
    /\ variant = "web" /\ pc = "single" /\ todo # <<>> /\ awaiting
    /\ LET global_idx == cur[Head(todo) + 1]
           text == call_text
       IN  \E r \in translate_text_of[text] :
               /\ translated_map' = MapSet(translated_map, global_idx, r.out)
               /\ calls' = Append(calls, Call("single", <<global_idx>>, text, r))
               /\ outcomes' = outcomes \cup {Answer(r.how)}
    /\ awaiting' = FALSE
    /\ in_flight' = Left(in_flight, call_text)
    /\ delay_due' = FALSE
    /\ IF rest_todo(todo) = <<>>
       THEN Return
       ELSE /\ todo' = rest_todo(todo)
            /\ UNCHANGED <<server, config, planner, pc, cur, ret, sent, pool, output>>

\* The decoded fragments stored under the members' list positions.
Filled(m, batch, btm) ==
    LET found == {k \in 1..Len(batch) : k \in DOMAIN btm}
        keys == {batch[k] : k \in found}
    IN  [x \in (DOMAIN m) \cup keys |->
            IF x \in keys
            THEN btm[CHOOSE k \in found : batch[k] = x]
            ELSE m[x]]

\* After the answer of a batch: with no member missing the call ends in
\* "await asyncio.sleep(random.uniform(2, 5))"; with members missing the
\* loop over them starts at once, and its first statement that waits is the
\* translate_text call of the first of them.
delay_due_after_batch(text, missing) == Strip(text) # <<>> /\ missing # <<>>

\* Batch mode: encode, submit, decode and fill; the call returns when no
\* member is missing, and otherwise goes on to the missing members.
SubmitBatch ==
    /\ variant = "web" /\ pc = "buffer" /\ cur # <<>> /\ ~single_mode /\ awaiting
    /\ awaiting' = FALSE
    /\ in_flight' = Left(in_flight, call_text)
    /\ LET text == call_text
       IN  \E r \in translate_text_of[text] :
               LET btm == batch_trans_map_of[r.out]
                   missing == missing_indices(btm, Len(cur))
               IN  /\ translated_map' = Filled(translated_map, cur, btm)
                   /\ calls' = Append(calls, Call("batch", cur, text, r))
                   /\ outcomes' = outcomes \cup {Answer(r.how)}
                   /\ delay_due' = delay_due_after_batch(text, missing)
                   /\ IF missing = <<>>
                      THEN Return
                      ELSE /\ todo' = missing
                           /\ pc' = "missing"
                           /\ UNCHANGED <<server, config, planner, cur, ret, sent, pool, output>>

\* "for idx, i in enumerate(missing_indices)": one member is re-submitted as
\* its own content, the answer is stored and a randomized delay follows; the
\* call returns after the last (and after one more delay).
Resubmit ==
    /\ variant = "web" /\ pc = "missing" /\ todo # <<>> /\ awaiting
    /\ LET global_idx == global_idx_of(cur, Head(todo))
           text == call_text
       IN  \E r \in translate_text_of[text] :
               /\ translated_map' = MapSet(translated_map, global_idx, r.out)
               /\ calls' = Append(calls, Call("missing", <<global_idx>>, text, r))
               /\ outcomes' = outcomes \cup {Answer(r.how)}
    /\ awaiting' = FALSE
    /\ in_flight' = Left(in_flight, call_text)
    /\ delay_due' = FALSE
    /\ IF rest_todo(todo) = <<>>
       THEN Return
       ELSE /\ todo' = rest_todo(todo)
            /\ UNCHANGED <<server, config, planner, pc, cur, ret, sent, pool, output>>

(***************************************************************************)
(* DeepLTranslator.process (api): batches translated by a thread pool.     *)
(***************************************************************************)
Min(S) == CHOOSE m \in S : \A x \in S : m <= x

\* range(0, len(subs), self.batch_size)
batch_starts == {s \in Positions : s % batch_size = 0}

\* batches: (i, batch_texts) for every start, in increasing order of start
batches ==
    [k \in 1..Cardinality(batch_starts) |->
        LET s == (k - 1) * batch_size
            n == IF s + batch_size <= NumSubs THEN batch_size ELSE NumSubs - s
        IN  [start_idx |-> s,
             texts |-> [j \in 1..n |-> batch_text(Sub(s + j - 1).content)]]]

\* executor.submit for every batch, in order: a worker thread is started for
\* each of the first max_workers work items, the others wait in the queue.
submitted(bs) ==
    [k \in 1..Len(bs) |->
        [start_idx |-> bs[k].start_idx,
         texts |-> bs[k].texts,
         state |-> IF k <= workers THEN "running" ELSE "queued",
         out |-> <<>>,
         slept |-> FALSE]]

\* The comprehension that submits every batch to the executor.
Plan ==
    /\ variant = "api" /\ pc = "plan"
    /\ futures' = submitted(batches)
    /\ pc' = "pool"
    /\ UNCHANGED <<server, page, config, planner, cur, todo, ret, translated_map, sent, calls,
                   outcomes, handled, output>>

Queued == {f \in DOMAIN futures : futures[f].state = "queued"}
Running == {f \in DOMAIN futures : futures[f].state = "running"}
Completed == {f \in DOMAIN futures : futures[f].state \in {"returned", "raised"}}

\* "for j, trans_text in enumerate(translated_texts)": the entries written
\* for the result of the batch that starts at start_idx.
Merged(m, start_idx, translated_texts) ==
    LET keys == {start_idx + j : j \in {j \in 0..(Len(translated_texts) - 1) :
                                           start_idx + j < NumSubs}}
    IN  [x \in (DOMAIN m) \cup keys |->
            IF x \in keys THEN translated_texts[x - start_idx + 1] ELSE m[x]]

\* "if self.max_delay > 0: time.sleep(random.uniform(...))": whether
\* translate_batch waits before its request.
delay_before_request(md) == md > 0

\* Variant of WorkerFinish in which the worker thread stores its own result
\* in translated_map.
WorkerFinishWriting(f) ==
    /\ variant = "api" /\ pc = "pool" /\ f \in Running
    /\ \E r \in translate_batch(futures[f].texts) :
           /\ outcomes' = outcomes \cup {Answer(r.how)}
           /\ translated_map' = Merged(translated_map, futures[f].start_idx, r.out)
           /\ futures' =
               [g \in DOMAIN futures |->
                   IF g = f
                   THEN [futures[g] EXCEPT
                            !.state = IF r.how = "raised" THEN "raised" ELSE "returned",
                            !.out = r.out,
                            !.slept = delay_before_request(max_delay)]
                   ELSE IF Queued # {} /\ g = Min(Queued)
                        THEN [futures[g] EXCEPT !.state = "running"]
                        ELSE futures[g]]
    /\ UNCHANGED <<server, page, config, planner, pc, cur, todo, ret, sent, calls, handled, output>>

\* translate_batch ends in a worker thread: the future holds its result or
\* its exception, and the thread takes the oldest queued work item.
WorkerFinish(f) ==
    /\ variant = "api" /\ pc = "pool" /\ f \in Running
    /\ \E r \in translate_batch(futures[f].texts) :
           /\ outcomes' = outcomes \cup {Answer(r.how)}
           /\ futures' =
               [g \in DOMAIN futures |->
                   IF g = f
                   THEN [futures[g] EXCEPT
                            !.state = IF r.how = "raised" THEN "raised" ELSE "returned",
                            !.out = r.out,
                            !.slept = delay_before_request(max_delay)]
                   ELSE IF Queued # {} /\ g = Min(Queued)
                        THEN [futures[g] EXCEPT !.state = "running"]
                        ELSE futures[g]]
    /\ UNCHANGED <<server, page, config, planner, pc, cur, todo, ret, translated_map, sent, calls,
                   handled, output>>

\* One iteration of the as_completed loop in the main thread.
Collect(f) ==
    /\ variant = "api" /\ pc = "pool" /\ f \in Completed \ handled
    /\ translated_map' =
           IF futures[f].state = "returned"
           THEN Merged(translated_map, futures[f].start_idx, futures[f].out)
           ELSE translated_map
    /\ handled' = handled \cup {f}
    /\ UNCHANGED <<server, page, config, planner, pc, cur, todo, ret, sent, calls, outcomes,
                   futures, output>>

\* Every future has been yielded: the executor block is left.
PoolExit ==
    /\ variant = "api" /\ pc = "pool" /\ handled = DOMAIN futures
    /\ pc' = "reassemble"
    /\ UNCHANGED <<server, page, config, planner, cur, todo, ret, translated_map, sent, calls,
                   outcomes, pool, output>>

(***************************************************************************)
(* Reassembly and saving (both scripts).                                   *)
(***************************************************************************)
\* Variant of trans without the fallback to sub.content.
trans_no_fallback(p) ==
    IF p \in DOMAIN translated_map THEN translated_map[p] ELSE <<>>

\* translated_map.get(i, ""), replaced by sub.content when empty
trans(p) ==
    LET t == IF p \in DOMAIN translated_map THEN translated_map[p] ELSE <<>>
    IN  IF t = <<>> THEN Sub(p).content ELSE t

\* Variant of new_content that puts the original line first.
new_content_original_first(p) ==
    IF bilingual THEN Sub(p).content \o <<NL>> \o trans(p) ELSE trans(p)

\* f"{trans}\\n{sub.content}" in bilingual mode, trans otherwise
new_content(p) ==
    IF bilingual THEN trans(p) \o <<NL>> \o Sub(p).content ELSE trans(p)

\* Variant of new_sub that numbers the output by list position.
new_sub_renumbered(p) ==
    [index |-> p + 1, start |-> Sub(p).start, end |-> Sub(p).end,
     content |-> new_content(p)]

\* srt.Subtitle(index=sub.index, start=sub.start, end=sub.end, content=new_content)
new_sub(p) ==
    [index |-> Sub(p).index, start |-> Sub(p).start, end |-> Sub(p).end,
     content |-> new_content(p)]

\* Variant of reassembled that leaves out the subtitles without a translation.
RECURSIVE TranslatedFrom(_)
TranslatedFrom(p) ==
    IF p >= NumSubs THEN <<>>
    ELSE (IF trans_no_fallback(p) = <<>> THEN <<>> ELSE <<new_sub(p)>>)
         \o TranslatedFrom(p + 1)

reassembled_translated_only == TranslatedFrom(0)

\* new_subs after "for i, sub in enumerate(subs): ... new_subs.append(...)"
reassembled == [k \in 1..NumSubs |-> new_sub(k - 1)]

\* The end of process() for the output list ns and the input list ss:
\* "if len(new_subs) != len(subs): logger.error(...)" (web script only), then
\* "with open(output_path, 'w') ...: f.write(srt.compose(new_subs))".  The
\* comparison decides what is logged and nothing else.
save(v, ns, ss) ==
    [error_logged |-> v = "web" /\ Len(ns) # Len(ss), written |-> TRUE]

\* The subtitles are reassembled and the output file is written.
Reassemble ==
    /\ pc = "reassemble"
    /\ new_subs' = reassembled
    /\ written' = save(variant, reassembled, subs).written
    /\ pc' = "done"
    /\ UNCHANGED <<server, page, config, planner, cur, todo, ret, translated_map, sent, calls,
                   outcomes, pool>>

\* process() returns to process_batch: its locals are gone; the translator,
\* with its browser page and options, stays.
FileDone ==
    /\ variant = "web" /\ pc = "done"
    /\ pc' = "idle"
    /\ subs' = <<>>
    /\ i' = 0 /\ buffer_subs' = <<>> /\ buffer_len' = 0
    /\ cur' = <<>> /\ todo' = <<>> /\ ret' = "append"
    /\ translated_map' = <<>> /\ sent' = <<>> /\ calls' = <<>> /\ outcomes' = {}
    /\ new_subs' = <<>> /\ written' = FALSE
    /\ UNCHANGED <<server, page, variant, single_mode, bilingual, batch_size, workers,
                   max_delay, pool>>

\* process() loads the subtitles of its input: of the next file of
\* files_to_process (process_batch, web script), of the one input file
\* (request-style script).
NextFile ==
    /\ pc = "idle"
    /\ subs' \in (IF variant = "web" THEN SubLists ELSE ApiLists)
    /\ pc' = (IF variant = "web" THEN "loop" ELSE "plan")
    /\ UNCHANGED <<server, page, variant, single_mode, bilingual, batch_size, workers,
                   max_delay, planner, cur, todo, ret, translated_map, sent, calls, outcomes,
                   pool, output>>

\* load_subtitles: open, read or srt.parse raises; the except branch is
\* entered and the error is logged.
LoadFail ==
    /\ pc = "idle"
    /\ pc' = "load_failed"
    /\ UNCHANGED <<server, page, config, planner, cur, todo, ret, translated_map, sent, calls,
                   outcomes, pool, output>>

\* Variant of after_load_failure in which load_subtitles returns an empty
\* list and the run goes on.
after_load_failure_empty(v) == IF v = "web" THEN "loop" ELSE "plan"

\* "sys.exit(1)": SystemExit is no Exception, so neither process_batch's
\* "except Exception" nor anything else catches it; the program ends.
after_load_failure(v) == "exited"

Exit ==
    /\ pc = "load_failed"
    /\ pc' = after_load_failure(variant)
    /\ UNCHANGED <<server, page, config, planner, cur, todo, ret, translated_map, sent, calls,
                   outcomes, pool, output>>

Next ==
    \/ LoopAppend \/ LoopOverflow \/ LoopExit
    \/ BufferEmpty \/ SingleStart \/ SingleStep
    \/ Submit \/ SubmitBatch \/ Resubmit
    \/ FileDone \/ NextFile \/ LoadFail \/ Exit
    \/ Plan
    \/ (\E f \in DOMAIN futures : WorkerFinish(f))
    \/ (\E f \in DOMAIN futures : Collect(f))
    \/ PoolExit
    \/ Reassemble

Spec == Init /\ [][Next]_vars

(***************************************************************************)
(* app.py: the task API of the Flask server.                               *)
(***************************************************************************)
\* Everything of the translation scripts: the server does not touch it.
script ==
    <<page, config, planner, pc, cur, todo, ret, translated_map, sent, calls,
      outcomes, pool, output>>

\* CheckConstraint check_status of ProcessRecord
Statuses ==
    {"pending", "processing", "extracting", "transcribing", "completed", "failed"}

\* ProcessRecord(id=task_id, ..., status='pending', progress=0): the row of a
\* new task.  audio_path and subtitle_path say whether the column is set,
\* error_message is "" (None) or "error" (str(e)).
new_record ==
    [status |-> "pending", progress |-> 0, audio_path |-> FALSE,
     subtitle_path |-> FALSE, error_message |-> ""]

\* "record.status = 'extracting'; record.progress = ..; db.session.commit()"
extracting(rec, progress) ==
    [rec EXCEPT !.status = "extracting", !.progress = progress]

\* Variant of extracted that stores the audio path and leaves the status
\* and the progress as they are.
extracted_stale(rec) == [rec EXCEPT !.audio_path = TRUE]

\* "record.audio_path = audio_path; record.status = 'transcribing';
\* record.progress = 60; db.session.commit()"
extracted(rec) ==
    [rec EXCEPT !.audio_path = TRUE, !.status = "transcribing", !.progress = 60]

\* "record.subtitle_path = ..; record.status = 'completed';
\* record.progress = 100; db.session.commit()"
generated(rec) ==
    [rec EXCEPT !.subtitle_path = TRUE, !.status = "completed", !.progress = 100]

\* "record.status = 'failed'; record.error_message = str(e); db.session.commit()"
failed(rec) == [rec EXCEPT !.status = "failed", !.error_message = "error"]

\* success_response / error_response: the response is sent.
Respond(op, named, t, code, status, progress) ==
    resp' = [op |-> op, named |-> named, task |-> t, code |-> code,
             status |-> status, progress |-> progress]

\* The first slot no request waits in.
FreeSlot(s) ==
    reqs[s] = NoRequest /\ \A s2 \in Slots : s2 < s => reqs[s2] # NoRequest

\* str(uuid.uuid4()): an id no task has; which one is immaterial, so the
\* least of them.
FreshId(t) ==
    t \in TaskIds \ DOMAIN tasks /\ \A t2 \in TaskIds \ DOMAIN tasks : t <= t2

\* POST /api/upload: the file is refused (no file, empty name, invalid video,
\* too large) or saving it fails, and nothing changes; or the file is saved
\* and the task is created under a fresh id.
upload_file ==
    /\ \/ /\ \E code \in {"INVALID_FILE", "FILE_TOO_LARGE", "INTERNAL_ERROR"} :
                 Respond("upload", FALSE, 0, code, "none", 0)
          /\ UNCHANGED tasks
       \/ \E t \in TaskIds :
              /\ FreshId(t)
              /\ tasks' = MapSet(tasks, t, new_record)
              /\ Respond("upload", FALSE, t, "ok", "pending", 0)
    /\ UNCHANGED <<script, reqs, threads>>

\* POST /api/extract-audio up to the call of audio_service.extract_audio.
\* The body has no task_id; or request.get_json() raises, and the except
\* branch finds no 'record' in locals(); or the task does not exist; or the
\* row is set to extracting / 30 and the extraction starts.
extract_audio_begin ==
    /\ \/ /\ Respond("extract", FALSE, 0, "INVALID_REQUEST", "none", 0)
          /\ UNCHANGED <<tasks, reqs>>
       \/ /\ Respond("extract", FALSE, 0, "AUDIO_EXTRACTION_FAILED", "none", 0)
          /\ UNCHANGED <<tasks, reqs>>
       \/ \E t \in RequestIds \ DOMAIN tasks :
              /\ Respond("extract", TRUE, t, "TASK_NOT_FOUND", "none", 0)
              /\ UNCHANGED <<tasks, reqs>>
       \/ \E t \in DOMAIN tasks, s \in Slots :
              /\ FreeSlot(s)
              /\ tasks' = [tasks EXCEPT ![t] = extracting(@, 30)]
              /\ reqs' = [reqs EXCEPT ![s] = [op |-> "extract", task |-> t]]
              /\ UNCHANGED resp
    /\ UNCHANGED <<script, threads>>

\* POST /api/extract-audio from the return of audio_service.extract_audio:
\* the row is updated and the success is reported, or the service raised
\* and the except branch marks the row failed.
extract_audio_end(s) ==
    /\ reqs[s].op = "extract"
    /\ LET t == reqs[s].task
       IN  \/ /\ tasks' = [tasks EXCEPT ![t] = extracted(@)]
              /\ Respond("extract", TRUE, t, "ok", "transcribing", 60)
           \/ /\ tasks' = [tasks EXCEPT ![t] = failed(@)]
              /\ Respond("extract", TRUE, t, "AUDIO_EXTRACTION_FAILED", "none", 0)
    /\ reqs' = [reqs EXCEPT ![s] = NoRequest]
    /\ UNCHANGED <<script, threads>>

\* POST /api/generate-subtitle up to the call of
\* subtitle_service.generate_subtitle.
generate_subtitle_begin ==
    /\ \/ /\ Respond("generate", FALSE, 0, "INVALID_REQUEST", "none", 0)
          /\ UNCHANGED reqs
       \/ /\ Respond("generate", FALSE, 0, "SUBTITLE_GENERATION_FAILED", "none", 0)
          /\ UNCHANGED reqs
       \/ \E t \in RequestIds \ DOMAIN tasks :
              /\ Respond("generate", TRUE, t, "TASK_NOT_FOUND", "none", 0)
              /\ UNCHANGED reqs
       \/ \E t \in DOMAIN tasks :
              /\ ~tasks[t].audio_path
              /\ Respond("generate", TRUE, t, "AUDIO_NOT_FOUND", "none", 0)
              /\ UNCHANGED reqs
       \/ \E t \in DOMAIN tasks, s \in Slots :
              /\ tasks[t].audio_path /\ FreeSlot(s)
              /\ reqs' = [reqs EXCEPT ![s] = [op |-> "generate", task |-> t]]
              /\ UNCHANGED resp
    /\ UNCHANGED <<script, tasks, threads>>

\* POST /api/generate-subtitle from the return of the service.
generate_subtitle_end(s) ==
    /\ reqs[s].op = "generate"
    /\ LET t == reqs[s].task
       IN  \/ /\ tasks' = [tasks EXCEPT ![t] = generated(@)]
              /\ Respond("generate", TRUE, t, "ok", "completed", 100)
           \/ /\ tasks' = [tasks EXCEPT ![t] = failed(@)]
              /\ Respond("generate", TRUE, t, "SUBTITLE_GENERATION_FAILED", "none", 0)
    /\ reqs' = [reqs EXCEPT ![s] = NoRequest]
    /\ UNCHANGED <<script, threads>>

\* GET /api/status/<task_id>
get_status(t) ==
    /\ IF t \in DOMAIN tasks
       THEN Respond("status", TRUE, t, "ok", tasks[t].status, tasks[t].progress)
       ELSE Respond("status", TRUE, t, "TASK_NOT_FOUND", "none", 0)
    /\ UNCHANGED <<script, tasks, reqs, threads>>

\* GET /api/download/<task_id>: the file is sent when the row has a subtitle
\* path and the file is there.
download_subtitle(t) ==
    /\ \/ /\ t \notin DOMAIN tasks
          /\ Respond("download", TRUE, t, "TASK_NOT_FOUND", "none", 0)
       \/ /\ t \in DOMAIN tasks
          /\ Respond("download", TRUE, t, "SUBTITLE_NOT_FOUND", "none", 0)
       \/ /\ t \in DOMAIN tasks /\ tasks[t].subtitle_path
          /\ Respond("download", TRUE, t, "ok", "none", 0)
    /\ UNCHANGED <<script, tasks, reqs, threads>>

\* POST /api/process-existing: the request is refused (no name, no such
\* file) or fails, and nothing changes; or the task is created and the
\* background thread is started.
process_existing ==
    /\ \/ /\ \E code \in {"INVALID_REQUEST", "FILE_NOT_FOUND", "INTERNAL_ERROR"} :
                 Respond("process-existing", FALSE, 0, code, "none", 0)
          /\ UNCHANGED <<tasks, threads>>
       \/ \E t \in TaskIds :
              /\ FreshId(t)
              /\ tasks' = MapSet(tasks, t, new_record)
              /\ threads' = MapSet(threads, t, "start")
              /\ Respond("process-existing", FALSE, t, "ok", "none", 0)
    /\ UNCHANGED <<script, reqs>>

\* _process_task_background up to the call of audio_service.extract_audio.
\* The thread is started by threading.Thread and runs outside the request
\* and its application context (db is bound by db.init_app, a context is
\* pushed only around db.create_all): ProcessRecord.query.get raises
\* there, the except branch finds no 'record' in locals() and the row is
\* left as it is.  Where the caller has a context the row is set to
\* extracting / 20.
background_begin(t) ==
    /\ t \in DOMAIN threads /\ threads[t] = "start"
    /\ \/ /\ threads' = [threads EXCEPT ![t] = "ended"]
          /\ UNCHANGED tasks
       \/ /\ tasks' = [tasks EXCEPT ![t] = extracting(@, 20)]
          /\ threads' = [threads EXCEPT ![t] = "extract"]
    /\ UNCHANGED <<script, reqs, resp>>

\* _process_task_background from the return of audio_service.extract_audio.
background_extract(t) ==
    /\ t \in DOMAIN threads /\ threads[t] = "extract"
    /\ \/ /\ tasks' = [tasks EXCEPT ![t] = extracted(@)]
          /\ threads' = [threads EXCEPT ![t] = "transcribe"]
       \/ /\ tasks' = [tasks EXCEPT ![t] = failed(@)]
          /\ threads' = [threads EXCEPT ![t] = "ended"]
    /\ UNCHANGED <<script, reqs, resp>>

\* _process_task_background from the return of
\* subtitle_service.generate_subtitle.
background_transcribe(t) ==
    /\ t \in DOMAIN threads /\ threads[t] = "transcribe"
    /\ \/ tasks' = [tasks EXCEPT ![t] = generated(@)]
       \/ tasks' = [tasks EXCEPT ![t] = failed(@)]
    /\ threads' = [threads EXCEPT ![t] = "ended"]
    /\ UNCHANGED <<script, reqs, resp>>

\* The server has started; the translation scripts are not running.
TaskInit ==
    /\ variant = "web" /\ single_mode = FALSE /\ bilingual = FALSE
    /\ batch_size = 1 /\ workers = 1 /\ max_delay = 0
    /\ subs = <<>> /\ pc = "idle"
    /\ i = 0 /\ buffer_subs = <<>> /\ buffer_len = 0
    /\ cur = <<>> /\ todo = <<>> /\ ret = "append"
    /\ translated_map = <<>> /\ sent = <<>> /\ calls = <<>> /\ outcomes = {}
    /\ futures = <<>> /\ handled = {}
    /\ new_subs = <<>> /\ written = FALSE
    /\ in_flight = 0 /\ awaiting = FALSE /\ delay_due = FALSE
    /\ ServerInit

TaskNext ==
    \/ upload_file
    \/ extract_audio_begin
    \/ (\E s \in Slots : extract_audio_end(s))
    \/ generate_subtitle_begin
    \/ (\E s \in Slots : generate_subtitle_end(s))
    \/ (\E t \in RequestIds : get_status(t))
    \/ (\E t \in RequestIds : download_subtitle(t))
    \/ process_existing
    \/ (\E t \in TaskIds : background_begin(t))
    \/ (\E t \in TaskIds : background_extract(t))
    \/ (\E t \in TaskIds : background_transcribe(t))

TaskSpec == TaskInit /\ [][TaskNext]_vars

(***************************************************************************)
(* Properties.                                                             *)
(***************************************************************************)
\* The list positions 0 .. n-1 in order.
Iota(n) == [k \in 1..n |-> k - 1]

RECURSIVE Flatten(_)
\* The members of a list of batches, in the order sent.
Flatten(bs) == IF bs = <<>> THEN <<>> ELSE Head(bs) \o Flatten(Tail(bs))

\* Does the text hold the anchor <k>?
HasAnchor(text, k) ==
    LET a == <<"<">> \o IntToStr(k) \o <<">">>
    IN  \E q \in 1..Len(text) :
            q + Len(a) - 1 <= Len(text) /\ SubSeq(text, q, q + Len(a) - 1) = a

\* The future of the batch that holds list position q, and what that batch's
\* result holds for q ("" when the result does not reach q or the future raised).
BatchOf(q) == (q \div batch_size) + 1
OwnResult(q) ==
    LET f == futures[BatchOf(q)]
        j == q - f.start_idx + 1
    IN  IF f.state = "returned" /\ j <= Len(f.out) THEN f.out[j] ELSE <<>>

\* C1: whatever the channel answered, the output list built by process() has
\* as many entries as the input list.
C1_SameCount == pc = "done" => Len(new_subs) = Len(subs)

C1_Witness ==
    /\ pc = "done" /\ variant = "web" /\ NumSubs = 3
    /\ {"observed", "timeout_empty", "exception"} \subseteq outcomes
    /\ Len(new_subs) = 3

\* C2: output entry k carries the index, start and end of input entry k.
C2_IndexAndTimingKept ==
    pc = "done" =>
        \A k \in 1..Len(new_subs) :
            /\ k <= Len(subs)
            /\ new_subs[k].index = subs[k].index
            /\ new_subs[k].start = subs[k].start
            /\ new_subs[k].end = subs[k].end

C2_Witness ==
    /\ pc = "done" /\ variant = "web" /\ ~single_mode /\ NumSubs = 3
    /\ \E k \in 1..NumSubs : subs[k].index # k
    /\ Len(sent) >= 2 /\ Len(calls) >= 2
    /\ \A k \in 1..NumSubs : new_subs[k].content # subs[k].content

\* C3 as claimed: when reconciliation has finished, just before reassembly,
\* the translation map has an entry for every list position.
C3_MapComplete == pc = "reassemble" => DOMAIN translated_map = Positions

\* C3 as amended: just before reassembly the map has entries for list
\* positions only; in the web script every position has one; in the
\* request-style script a position has one exactly when some batch's future
\* returned a list that reaches it.
C3_MapCompleteWeb ==
    pc = "reassemble" =>
        /\ DOMAIN translated_map \subseteq Positions
        /\ variant = "web" => DOMAIN translated_map = Positions
        /\ variant = "api" =>
               \A q \in Positions :
                   q \in DOMAIN translated_map <=>
                       \E f \in DOMAIN futures :
                           /\ futures[f].state = "returned"
                           /\ futures[f].start_idx <= q
                           /\ q < futures[f].start_idx + Len(futures[f].out)

C3_Witness ==
    /\ pc = "reassemble" /\ variant = "web" /\ ~single_mode /\ NumSubs = 3
    /\ Len(calls) = 4 /\ calls[1].how = "observed"
    /\ DOMAIN translated_map = Positions

\* C4: the batches handed to process_buffer are consecutive runs of list
\* positions that together hold every position once, in increasing order:
\* during the loop the batches sent so far followed by the pending buffer
\* are the positions before i, and after the final call the batches sent
\* are all the positions.
C4_BatchesPartition ==
    variant = "web" =>
        IF ret = "final"
        THEN Flatten(sent) = Iota(NumSubs)
        ELSE Flatten(sent) \o buffer_subs = Iota(i)

\* A run with a sentence-aware split: the first batch was closed although
\* the next subtitle would have fitted, and that subtitle was carried forward.
C4_Witness ==
    /\ pc = "done" /\ variant = "web"
    /\ Len(sent) = 2 /\ Len(sent[1]) = 1 /\ Len(sent[2]) = 2
    /\ SumLen(sent[1] \o <<sent[2][1]>>) <= max_chars

\* C5: a batch of two or more members handed to process_buffer is within
\* the character budget.
C5_BatchWithinBudget ==
    \A b \in 1..Len(sent) : Len(sent[b]) >= 2 => SumLen(sent[b]) <= max_chars

\* C6: on overflow the pending batch is closed at the last pending subtitle
\* that ends a sentence, when there is one and it is not the last pending
\* member, and the later members stay pending; otherwise the whole pending
\* batch is sent.  When the call returns the overflowing subtitle joins the
\* pending batch.
C6_SplitAtSentenceEnd ==
    [][ /\ ( /\ variant = "web" /\ pc = "loop" /\ i < NumSubs
             /\ buffer_len + content_len(Sub(i).content) > max_chars )
           => LET ends == {j \in 1..Len(buffer_subs) :
                              is_sentence_end(Sub(buffer_subs[j]).content)}
              IN  IF ends # {} /\ Max(ends) < Len(buffer_subs)
                  THEN /\ cur' = SubSeq(buffer_subs, 1, Max(ends))
                       /\ buffer_subs' =
                              SubSeq(buffer_subs, Max(ends) + 1, Len(buffer_subs))
                       /\ Len(cur') < Len(buffer_subs)
                  ELSE /\ cur' = buffer_subs
                       /\ buffer_subs' = <<>>
        /\ (variant = "web" /\ pc \in {"buffer", "single", "missing"} /\ pc' = "loop")
           => buffer_subs' = Append(buffer_subs, i) /\ i' = i + 1
      ]_vars

\* A split call in progress: a batch is being processed while later members
\* of the pending batch wait to be joined by the overflowing subtitle.
C6_Witness ==
    /\ variant = "web" /\ pc = "buffer" /\ ret = "append"
    /\ cur # <<>> /\ buffer_subs # <<>>
    /\ is_sentence_end(Sub(cur[Len(cur)]).content)

\* C7: after a batch call whose answer held the anchors of the members S
\* only, the decoded fragment of every member of S is stored under that
\* member's list position, the members outside S and no others were
\* re-submitted, once each and in order, and every member has a map entry.
C7_MissingAnchorRecovery ==
    ( /\ variant = "web" /\ pc \in {"loop", "reassemble"}
      /\ calls # <<>> /\ calls[1].kind = "batch" )
    => LET b == calls[1]
           N == Len(b.idxs)
           S == {k \in 1..N : HasAnchor(b.out, k)}
           btm == batch_trans_map(b.out)
           rest == SubSeq(calls, 2, Len(calls))
       IN  /\ \A k \in S : /\ k \in DOMAIN btm
                           /\ b.idxs[k] \in DOMAIN translated_map
                           /\ translated_map[b.idxs[k]] = btm[k]
           /\ \A c \in 1..Len(rest) : rest[c].kind = "missing" /\ Len(rest[c].idxs) = 1
           /\ Len(rest) = N - Cardinality(S)
           /\ {rest[c].idxs[1] : c \in 1..Len(rest)} = {b.idxs[k] : k \in (1..N) \ S}
           /\ \A c, d \in 1..Len(rest) : c < d => rest[c].idxs[1] < rest[d].idxs[1]
           /\ \A k \in 1..N : b.idxs[k] \in DOMAIN translated_map

\* C8: when every submission timed out with empty output (every request of
\* the request-style script failed), the run ends with the output written
\* and, without the bilingual option, every output text equal to its source.
C8_TotalFailure ==
    ( /\ pc = "done" /\ ~bilingual
      /\ outcomes # {} /\ outcomes \subseteq {"timeout_empty", "failed"} )
    => /\ written
       /\ Len(new_subs) = Len(subs)
       /\ \A k \in 1..Len(subs) : new_subs[k].content = subs[k].content

C8_Witness ==
    /\ pc = "done" /\ ~bilingual /\ variant = "web" /\ ~single_mode
    /\ outcomes = {"timeout_empty"} /\ NumSubs = 3 /\ Len(sent) = 2
    /\ written

\* C9: with more than one worker the output is in input order and every
\* output text comes from the result of the batch that held the subtitle.
C9_ConcurrentOrdering ==
    (pc = "done" /\ variant = "api" /\ workers > 1)
    => \A q \in Positions :
           /\ new_subs[q + 1].index = Sub(q).index
           /\ new_subs[q + 1].content =
                  LET t == IF OwnResult(q) = <<>> THEN Sub(q).content ELSE OwnResult(q)
                  IN  IF bilingual THEN t \o <<NL>> \o Sub(q).content ELSE t

\* Every list position lies in exactly one submitted batch.
OneBatchPerPosition ==
    (variant = "api" /\ pc # "plan") =>
        \A q \in Positions :
            Cardinality({f \in DOMAIN futures :
                            /\ futures[f].start_idx <= q
                            /\ q < futures[f].start_idx + Len(futures[f].texts)}) = 1

\* C10: before and after every step each list position lies in exactly one
\* submitted batch, and the map is written only by the main thread while it
\* deals with one completed future: a step of a worker thread never changes
\* the map.
C10_NoConcurrentWrites ==
    [][ /\ OneBatchPerPosition
        /\ OneBatchPerPosition'
        /\ (variant = "api" /\ translated_map' # translated_map)
           => /\ futures' = futures
              /\ \E f \in Completed \ handled : handled' = handled \cup {f}
      ]_vars

\* Two workers are translating while the main thread has already stored the
\* result of another batch.
C10_Witness ==
    /\ variant = "api" /\ pc = "pool" /\ workers = 2
    /\ Cardinality(Running) = 2 /\ handled # {} /\ translated_map # <<>>

\* C11: a submission to the shared page begins only while no other one is in
\* flight, so at most one is in flight at any instant, whichever batch,
\* single-mode line, re-submission or file it belongs to.
C11_OneInFlight ==
    [][ (variant = "web" /\ in_flight' > in_flight)
        => (in_flight = 0 /\ in_flight' = 1) ]_vars

\* The re-submission of a missing member is in flight after the batch
\* submission of the same call has returned.
C11_Witness ==
    /\ variant = "web" /\ pc = "missing" /\ awaiting /\ in_flight = 1
    /\ calls # <<>> /\ calls[1].kind = "batch" /\ Len(sent) >= 2

\* The list positions of the members a finished batch call found missing.
MissingOf(b) ==
    LET ms == missing_indices(batch_trans_map(b.out), Len(b.idxs))
    IN  [k \in 1..Len(ms) |-> b.idxs[ms[k] + 1]]

\* A process_buffer call in batch mode has returned.
BatchCallReturned ==
    /\ variant = "web" /\ pc \in {"loop", "reassemble"}
    /\ calls # <<>> /\ calls[1].kind = "batch"

\* C12 as claimed: when the decode of a batch leaves more than one member
\* missing, the missing members are submitted together, as one anchored
\* payload with the relative positions 1..M.
C12_MissingRebatched ==
    (BatchCallReturned /\ Len(MissingOf(calls[1])) > 1)
    => /\ Len(calls) >= 2
       /\ calls[2].idxs = MissingOf(calls[1])
       /\ calls[2].text =
              merged_text([k \in 1..Len(calls[2].idxs) |-> Sub(calls[2].idxs[k]).content])

\* C12 as amended: the missing members are re-submitted one by one, in batch
\* order, each as its own content without an anchor, and nothing else is
\* submitted by the call.
C12_MissingOneByOne ==
    BatchCallReturned
    => LET ms == MissingOf(calls[1])
       IN  /\ Len(calls) = 1 + Len(ms)
           /\ \A k \in 1..Len(ms) :
                  /\ calls[k + 1].kind = "missing"
                  /\ calls[k + 1].idxs = <<ms[k]>>
                  /\ calls[k + 1].text = Sub(ms[k]).content

\* Two members of a batch of three were missing and re-submitted.
C12_Witness ==
    /\ BatchCallReturned /\ Len(calls[1].idxs) = 3
    /\ Len(MissingOf(calls[1])) = 2 /\ Len(calls) = 3
    /\ calls[2].how = "observed" /\ calls[3].how = "observed"

\* C13: every re-submission of a missing member sends the member's own
\* text, without an anchor, and its answer is stored under the member's list
\* position; when the answer was empty or the page failed, the member's
\* output text is its source text (followed by the source line when the
\* output is bilingual).
C13_SingletonResubmission ==
    variant = "web" =>
        \A c \in 1..Len(calls) :
            calls[c].kind = "missing" =>
                LET q == calls[c].idxs[1]
                IN  /\ calls[1].kind = "batch"
                    /\ q = MissingOf(calls[1])[c - 1]
                    /\ calls[c].text = Sub(q).content
                    /\ ~AnchorAt(calls[c].text, 1)
                    /\ q \in DOMAIN translated_map
                    /\ translated_map[q] = calls[c].out
                    /\ (pc = "done" /\ calls[c].how \in {"timeout_empty", "exception"})
                       => new_subs[q + 1].content =
                              IF bilingual
                              THEN Sub(q).content \o <<NL>> \o Sub(q).content
                              ELSE Sub(q).content

\* The only missing member of a batch that does not start the list was
\* re-submitted, got no answer, and the output has its source text.
C13_Witness ==
    /\ variant = "web" /\ pc = "done" /\ ~bilingual
    /\ Len(calls) = 2 /\ calls[1].kind = "batch" /\ calls[1].how = "observed"
    /\ calls[2].kind = "missing" /\ calls[2].how = "timeout_empty"
    /\ calls[2].idxs[1] = 2 /\ calls[1].idxs[1] = 1
    /\ new_subs[3].content = subs[3].content

(***************************************************************************)
(* Termination of process_buffer and of the run.                           *)
(***************************************************************************)
\* Under the script's scheduling every step that can be taken is taken: the
\* page operations and the polling loop are bounded, and the thread pool runs
\* every submitted batch.
FairSpec == Spec /\ WF_vars(Next)

\* The calls of the latest process_buffer call, by kind and member.
BatchCalls == {k \in 1..Len(calls) : calls[k].kind = "batch"}
OwnCalls(p) == {k \in 1..Len(calls) : calls[k].kind # "batch" /\ calls[k].idxs = <<p>>}

SubmissionsBounded ==
    variant = "web" /\ sent # <<>> =>
        LET batch == sent[Len(sent)]
        IN  /\ Cardinality(BatchCalls) <= 1
            /\ \A k \in 1..Len(calls) :
                   /\ calls[k].polls <= sample_limit
                   /\ \A q \in 1..Len(calls[k].idxs) :
                          \E m \in 1..Len(batch) : batch[m] = calls[k].idxs[q]
            /\ \A m \in 1..Len(batch) : Cardinality(OwnCalls(batch[m])) <= 1
            /\ Len(calls) <= 1 + Len(batch)

\* C14: process_buffer ends whatever the channel does.  A batch of N
\* subtitles is submitted at most once as a batch and each member at most once
\* more on its own, every call takes at most sample_limit samples, and the run
\* of a file goes on to reassembly.
C14_Termination ==
    /\ [][SubmissionsBounded /\ SubmissionsBounded']_vars
    /\ (variant = "web" /\ pc \in {"loop", "buffer", "single", "missing"})
           ~> (pc = "reassemble")

\* A batch of two or more members, all re-submitted, with a call that ran to
\* the sample limit, has returned and the run is at reassembly.
C14_Witness ==
    /\ variant = "web" /\ pc = "reassemble" /\ sent # <<>>
    /\ Len(sent[Len(sent)]) >= 2
    /\ Len(calls) = 1 + Len(sent[Len(sent)])
    /\ \E k \in 1..Len(calls) : calls[k].polls = sample_limit

\* The calls that ran to the sample limit.
AtLimitCalls == {k \in 1..Len(calls) : calls[k].how \in {"timeout", "timeout_empty"}}

\* process_buffer has returned from its latest call.
Returned == pc \in {"loop", "reassemble", "done"}

\* C16: a call that reaches the sample limit returns the last text it
\* accepted, and a batch answer obtained that way is decoded like any other:
\* the members whose anchors it holds get their fragments and are not
\* re-submitted, the others are re-submitted.
C16_TimeoutKeepsObserved ==
    variant = "web" =>
        \A k \in AtLimitCalls :
            /\ calls[k].out = calls[k].last
            /\ calls[k].polls = sample_limit
            /\ calls[k].kind = "batch" =>
                   LET btm == batch_trans_map(calls[k].last)
                       batch == calls[k].idxs
                   IN  \A m \in 1..Len(batch) :
                           IF m \in DOMAIN btm
                           THEN /\ translated_map[batch[m]] = btm[m]
                                /\ OwnCalls(batch[m]) = {}
                           ELSE Returned => OwnCalls(batch[m]) # {}

\* A batch call has timed out with a partial answer that holds the anchor of
\* one member and not of another, and process_buffer has returned.
C16_Witness ==
    /\ variant = "web" /\ Returned
    /\ \E k \in AtLimitCalls :
           /\ calls[k].kind = "batch" /\ calls[k].how = "timeout"
           /\ \E m, n \in 1..Len(calls[k].idxs) :
                  /\ m \in DOMAIN batch_trans_map(calls[k].last)
                  /\ n \notin DOMAIN batch_trans_map(calls[k].last)

\* The batch calls that ended in an exception of the page.
FailedBatchCalls == {k \in BatchCalls : calls[k].how = "exception"}

\* C15 as claimed: a batch submission that fails hard is submitted again as a
\* batch, and if that fails too every member is re-submitted on its own.
C15_RetryOnce ==
    (variant = "web" /\ Returned /\ FailedBatchCalls # {}) =>
        /\ Cardinality(BatchCalls) = 2
        /\ (BatchCalls = FailedBatchCalls =>
                \A m \in 1..Len(calls[1].idxs) : OwnCalls(calls[1].idxs[m]) # {})

\* A subtitle's text as it comes back from its own payload line: encoded by
\* the batch encoder and decoded by the batch decoder.
EchoOf == [c \in Contents |-> clean_content(Sanitized(c))]

\* What the web script does with a batch submission that fails hard:
\* translate_text returns the submitted payload, in which process_buffer finds
\* every anchor.
EchoDecoded ==
    variant = "web" =>
        \A k \in FailedBatchCalls :
            /\ BatchCalls = {k}
            /\ calls[k].out = calls[k].text
            /\ \A m \in 1..Len(calls[k].idxs) :
                   LET p == calls[k].idxs[m]
                   IN  /\ OwnCalls(p) = {}
                       /\ translated_map[p] = EchoOf[Sub(p).content]

\* C15 (amended): a hard failure of a batch submission is not retried.  The
\* web script decodes the payload it gets back: no member is missing, none is
\* re-submitted, and every member's entry is its own payload line decoded.
\* The request-style script never runs a batch again once its call has ended.
C15_FailureNotRetried ==
    [][ /\ EchoDecoded /\ EchoDecoded'
        /\ \A f \in DOMAIN futures :
               futures[f].state \in {"returned", "raised"} =>
                   f \in DOMAIN futures' /\ futures'[f] = futures[f] ]_vars

\* A batch submission of two or more members has failed hard and
\* process_buffer has returned.
C15_Witness ==
    /\ variant = "web" /\ Returned
    /\ \E k \in FailedBatchCalls : Len(calls[k].idxs) >= 2

\* C17: when the page gives the payload back unchanged, decoding finds
\* every member and gives each its own trimmed, line-collapsed source text.
C17_RoundTrip ==
    variant = "web" =>
        \A k \in BatchCalls :
            calls[k].out = calls[k].text =>
                LET btm == batch_trans_map(calls[k].out)
                    batch == calls[k].idxs
                IN  /\ missing_indices(btm, Len(batch)) = <<>>
                    /\ \A m \in 1..Len(batch) :
                           m \in DOMAIN btm /\ btm[m] = Collapsed(Sub(batch[m]).content)

\* The lines of a payload as the service translates them, anchors intact.
TranslatedLines(text) ==
    LET lines == SplitLines(text) IN [m \in 1..Len(lines) |-> Translated(lines[m])]

\* C18: when the answer to a batch keeps every anchor and only the white
\* space between the fragments differs from the payload's (the line break
\* before an anchor is a space), no member is missing and every member is
\* decoded to its own fragment.
C18_WhitespaceTolerated ==
    variant = "web" =>
        \A k \in BatchCalls :
            calls[k].out \in {Join(TranslatedLines(calls[k].text), <<NL>>),
                              Join(TranslatedLines(calls[k].text), <<SP>>)} =>
                LET btm == batch_trans_map(calls[k].out)
                    batch == calls[k].idxs
                IN  /\ missing_indices(btm, Len(batch)) = <<>>
                    /\ \A m \in 1..Len(batch) :
                           /\ m \in DOMAIN btm
                           /\ btm[m] = clean_content(
                                           Translated(Sanitized(Sub(batch[m]).content)))

\* The text after the anchor on the line of the answer that starts with <n>.
AnchoredBody(out, n) ==
    LET lines == SplitLines(out)
        own == {j \in 1..Len(lines) :
                   AnchorAt(lines[j], 1) /\ StrToInt(DigitRun(lines[j], 2)) = n}
        l == lines[CHOOSE j \in own : TRUE]
    IN  SubSeq(l, Len(DigitRun(l, 2)) + 3, Len(l))

\* C19: a member whose anchor the answer does not hold is reported missing
\* and gets its entry from its own re-submission, never from the batch
\* answer; and the fragment of every member that was found is the text of its
\* own anchored line, without anything the answer holds outside that line.
C19_MissingNeverGuessed ==
    variant = "web" =>
        \A k \in BatchCalls :
            LET b == calls[k]
                N == Len(b.idxs)
                btm == batch_trans_map(b.out)
                absent == {m \in 1..N : ~HasAnchor(b.out, m)}
            IN  absent # {} =>
                    /\ \A m \in absent :
                           /\ m \notin DOMAIN btm
                           /\ Returned =>
                                  \E c \in OwnCalls(b.idxs[m]) :
                                      translated_map[b.idxs[m]] = calls[c].out
                    /\ \A n \in (DOMAIN btm) \cap (1..N) :
                           btm[n] = clean_content(AnchoredBody(b.out, n))

\* C20: no text handed to the channel holds a line break inside a subtitle:
\* an anchored payload has one line per member, the text of a single-mode
\* call or of a re-submission is one line, and so is every text of a request.
C20_LineBreaksCollapsed ==
    /\ variant = "web" =>
           \A k \in 1..Len(calls) :
               IF calls[k].kind = "batch"
               THEN Len(SplitLines(calls[k].text)) = Len(calls[k].idxs)
               ELSE \A j \in 1..Len(calls[k].text) : calls[k].text[j] # NL
    /\ variant = "api" =>
           \A f \in DOMAIN futures : \A t \in 1..Len(futures[f].texts) :
               \A j \in 1..Len(futures[f].texts[t]) : futures[f].texts[t][j] # NL

(***************************************************************************)
(* The length comparison before saving.                                    *)
(***************************************************************************)
\* process() builds new_subs with one entry per subtitle, so the comparison
\* of line 357 never finds a difference there (C1_SameCount).  What the
\* lines after it do with a difference is therefore examined on their own:
\* they are entered with any output list and any input list.
SaveInit ==
    /\ variant = "web"
    /\ subs \in SubLists
    /\ new_subs \in SubLists
    /\ pc = "save"
    /\ bilingual = FALSE /\ single_mode = FALSE /\ batch_size = 1 /\ workers = 1
    /\ max_delay = 0 /\ delay_due = FALSE
    /\ i = 0 /\ buffer_subs = <<>> /\ buffer_len = 0
    /\ cur = <<>> /\ todo = <<>> /\ ret = "final"
    /\ translated_map = <<>> /\ sent = <<>> /\ calls = <<>> /\ outcomes = {}
    /\ futures = <<>> /\ handled = {}
    /\ written = FALSE
    /\ in_flight = 0 /\ awaiting = FALSE
    /\ ServerInit

\* Lines 356-369 of the web script.
Save ==
    /\ pc = "save"
    /\ written' = save(variant, new_subs, subs).written
    /\ pc' = "done"
    /\ UNCHANGED <<server, page, config, planner, cur, todo, ret, translated_map, sent, calls,
                   outcomes, pool, new_subs>>

SaveSpec == SaveInit /\ [][Save]_vars

NothingDone ==
    /\ sent = <<>> /\ calls = <<>> /\ futures = <<>>
    /\ in_flight = 0 /\ ~awaiting
    /\ translated_map = <<>> /\ new_subs = <<>> /\ ~written

\* C22: a load failure ends the program before the run starts: nothing has
\* been submitted or written for the input when load_subtitles fails, the
\* only step after the failure is the exit, and no step follows the exit (no
\* later file is processed).
C22_LoadFailureFatal ==
    [][ /\ pc # "exited"
        /\ (pc = "load_failed" => pc' = "exited")
        /\ (pc' \in {"load_failed", "exited"} => NothingDone') ]_vars

C22_Witness ==
    pc = "exited" /\ variant = "web" /\ NothingDone

(***************************************************************************)
(* Reassembly text.                                                        *)
(***************************************************************************)
\* The map entry of the position when there is one and it is not empty, the
\* source text otherwise.
FinalText(p) ==
    IF p \in DOMAIN translated_map /\ translated_map[p] # <<>>
    THEN translated_map[p]
    ELSE subs[p + 1].content

\* C23: the text of every output subtitle is the final text alone, or in
\* bilingual mode the final text, a line break and the source text.
C23_ReassemblyText ==
    pc = "done" =>
        \A p \in 0..(Len(subs) - 1) :
            new_subs[p + 1].content =
                IF bilingual
                THEN FinalText(p) \o <<NL>> \o subs[p + 1].content
                ELSE FinalText(p)

\* A bilingual run in which one subtitle has a translation of its own and
\* another falls back to its source text.
C23_Witness ==
    /\ pc = "done" /\ bilingual
    /\ \E p, q \in 0..(Len(subs) - 1) :
           /\ p \in DOMAIN translated_map
           /\ translated_map[p] \notin {<<>>, subs[p + 1].content}
           /\ (q \notin DOMAIN translated_map \/ translated_map[q] = <<>>)

(***************************************************************************)
(* Delays between submissions.                                             *)
(***************************************************************************)
\* C24: no text is with the page while a delay is still due after the
\* submission before it, and every request of the request-style script was
\* made after a delay.
C24_DelayBeforeSubmission ==
    /\ (variant = "web" /\ in_flight > 0) => ~delay_due
    /\ \A f \in DOMAIN futures :
           futures[f].state = "returned" => futures[f].slept

(***************************************************************************)
(* Assignments to the translation map.                                     *)
(***************************************************************************)
\* The list positions whose map entry the step assigns: the members found
\* in a batch answer, the member of a single-mode call or re-submission
\* (web), the positions the as_completed loop writes for a result (api).
AssignedNow ==
    IF variant = "web"
    THEN IF Len(calls') = Len(calls) + 1
         THEN LET c == calls'[Len(calls')]
              IN  IF c.kind = "batch"
                  THEN {c.idxs[k] : k \in {k \in 1..Len(c.idxs) :
                                               k \in DOMAIN batch_trans_map_of[c.out]}}
                  ELSE {c.idxs[1]}
         ELSE {}
    ELSE UNION {{futures[f].start_idx + j :
                    j \in {j \in 0..(Len(futures[f].out) - 1) :
                              futures[f].start_idx + j < Len(subs)}} :
                f \in {f \in handled' \ handled : futures[f].state = "returned"}}

\* C25: no step assigns a map entry that has been assigned before in the
\* same run.
C25_AssignedOnce ==
    [][AssignedNow \cap DOMAIN translated_map = {}]_vars

(***************************************************************************)
(* The polling loop of translate_text.                                     *)
(***************************************************************************)
\* Every way the polling loop can run for a submitted text: what the target
\* box shows over time, and the result of the loop.
Samplings ==
    [t \in SubmittedTexts |->
        {[st |-> st, r |-> Poll(st, 1, <<>>, 0)] : st \in Streams(t)}]

\* The sample is one the loop accepts: not empty, no "[...]" in it.
Accepted(text) == text # <<>> /\ ~Contains(text, Placeholder)

\* The accepted samples among the first n, in order.
AcceptedSamples(st, n) ==
    SelectSeq([k \in 1..n |-> SampleAt(st, k)], Accepted)

\* The result of the sampling sm is what the loop is meant to return for the
\* samples taken: at most sample_limit of them; a result returned as
\* stable is an accepted sample that is not blank and that the last
\* stable_needed + 1 accepted samples all showed; a result not returned
\* early took every sample and is the last accepted one ("" when none was
\* accepted).
Conforms(sm) ==
    LET c == sm.r
        acc == AcceptedSamples(sm.st, c.polls)
    IN  /\ c.polls <= sample_limit
        /\ IF c.how = "observed"
           THEN /\ Accepted(c.out) /\ Strip(c.out) # <<>>
                /\ Len(acc) >= stable_needed + 1
                /\ \A j \in 0..stable_needed : acc[Len(acc) - j] = c.out
           ELSE /\ c.polls = sample_limit
                /\ c.out = (IF acc = <<>> THEN <<>> ELSE acc[Len(acc)])

\* For each submitted text, the results of the polling loop over all its
\* samplings, and those among them that some sampling does not conform to.
PollResults ==
    [t \in SubmittedTexts |-> {sm.r : sm \in Samplings[t]}]

NonConforming ==
    [t \in SubmittedTexts |-> {sm.r : sm \in {x \in Samplings[t] : ~Conforms(x)}}]

\* The result of the recorded call c.
ResultOf(c) == [how |-> c.how, out |-> c.out, polls |-> c.polls, last |-> c.last]

OwnRange(f) ==
    {p \in Positions :
        /\ futures[f].start_idx <= p
        /\ p < futures[f].start_idx + Len(futures[f].texts)}

\* C28: handling the result of a batch neither creates nor changes the map
\* entry of a position outside the batch's own range.
C28_WritesOwnRange ==
    [][ \A f \in handled' \ handled :
          \A p \in Positions \ OwnRange(f) :
              /\ (p \in DOMAIN translated_map') = (p \in DOMAIN translated_map)
              /\ p \in DOMAIN translated_map => translated_map'[p] = translated_map[p]
      ]_vars

(***************************************************************************)
(* The answer to a batch whose submission raised.                          *)
(***************************************************************************)
\* C29: when the submission of a batch raised, the answer is the payload
\* itself, every member has an entry, none was re-submitted, and the entry
\* of every member is its own source text, trimmed and with its line breaks
\* collapsed.
C29_ExceptionEcho ==
    (variant = "web" /\ Returned) =>
        \A k \in FailedBatchCalls :
            /\ calls[k].out = calls[k].text
            /\ \A m \in 1..Len(calls[k].idxs) :
                   LET p == calls[k].idxs[m]
                   IN  /\ p \in DOMAIN translated_map
                       /\ OwnCalls(p) = {}
                       /\ translated_map[p] = Collapsed(Sub(p).content)


(***************************************************************************)
(* The task API: what a response says about the task rows.                 *)
(***************************************************************************)
\* A request is answered in this step.
Answered ==
    \/ resp' # resp
    \/ \E s \in Slots : reqs[s] # NoRequest /\ reqs'[s] = NoRequest

\* The response of this step has operation op and reports success.
Succeeds(op) == Answered /\ resp'.op = op /\ resp'.code = "ok"

\* C26: a successful upload creates a task with status 'pending' and
\* progress 0, and /api/status reports the status and progress of the row; a
\* successful /api/extract-audio leaves the task at 'transcribing' / 60; a
\* successful /api/generate-subtitle, on a task with an audio path, leaves
\* it at 'completed' / 100; a request naming an unknown task is answered
\* TASK_NOT_FOUND and changes no task.
C26_StatusTransitions ==
    [][ /\ Succeeds("upload") =>
              /\ resp'.task \notin DOMAIN tasks
              /\ resp'.task \in DOMAIN tasks'
              /\ tasks'[resp'.task].status = "pending"
              /\ tasks'[resp'.task].progress = 0
              /\ \A t \in DOMAIN tasks : tasks'[t] = tasks[t]
        /\ Succeeds("status") =>
              /\ resp'.task \in DOMAIN tasks
              /\ resp'.status = tasks[resp'.task].status
              /\ resp'.progress = tasks[resp'.task].progress
              /\ tasks[resp'.task] = new_record =>
                     resp'.status = "pending" /\ resp'.progress = 0
        /\ Succeeds("extract") =>
              /\ tasks'[resp'.task].status = "transcribing"
              /\ tasks'[resp'.task].progress = 60
        /\ Succeeds("generate") =>
              /\ tasks[resp'.task].audio_path
              /\ tasks'[resp'.task].status = "completed"
              /\ tasks'[resp'.task].progress = 100
        /\ (Answered /\ resp'.named /\ resp'.task \notin DOMAIN tasks) =>
              /\ resp'.code = "TASK_NOT_FOUND"
              /\ tasks' = tasks
      ]_vars

\* A task was uploaded, its audio extracted and its subtitle generated by
\* the two requests, and the last response reports the generation.
C26_Witness ==
    /\ resp.op = "generate" /\ resp.code = "ok"
    /\ resp.task \in DOMAIN tasks /\ resp.task \notin DOMAIN threads
    /\ tasks[resp.task].status = "completed"
    /\ tasks[resp.task].progress = 100
    /\ tasks[resp.task].audio_path /\ tasks[resp.task].subtitle_path

\* Every row satisfies check_status and check_progress.
RowsValid ==
    \A t \in DOMAIN tasks :
        tasks[t].status \in Statuses /\ tasks[t].progress \in 0..100

\* The service called for a request raised in this step: the request was
\* in service and is answered with the code of the except branch.
RequestRaised(s) ==
    /\ reqs[s] # NoRequest /\ reqs'[s] = NoRequest
    /\ resp'.code \in {"AUDIO_EXTRACTION_FAILED", "SUBTITLE_GENERATION_FAILED"}

\* The background thread of task t ends in this step.
ThreadEnds(t) ==
    /\ t \in DOMAIN threads
    /\ threads[t] # "ended" /\ threads'[t] = "ended"

\* C30: each task's status is one of the six values and its progress is
\* within 0..100; a task whose extraction or generation raised is 'failed'
\* with the error message recorded; the background thread of a task
\* started through /api/process-existing ends with the task 'completed' or
\* 'failed'.
C30_TaskInvariants ==
    [][ /\ RowsValid'
        /\ \A s \in Slots :
               RequestRaised(s) =>
                   /\ tasks'[reqs[s].task].status = "failed"
                   /\ tasks'[reqs[s].task].error_message # ""
        /\ \A t \in TaskIds :
               ThreadEnds(t) => tasks'[t].status \in {"completed", "failed"}
      ]_vars

====
